---- MODULE Spec2Model ----
(***************************************************************************)
(* A model of the contact manager of src/main.py: the field validators     *)
(* (Phone, Birthday), Record, AddressBook, the upcoming-birthday scheduler *)
(* and the command handlers of the bot.                                    *)
(*                                                                         *)
(* Representation.                                                         *)
(*  - A Python str that the program inspects character by character (a     *)
(*    phone, a birthday) is a sequence of characters; a character is a     *)
(*    one-element TLA+ string, except "sup2", which stands for U+00B2      *)
(*    SUPERSCRIPT TWO (a character for which str.isdigit() is True but     *)
(*    which is no ASCII digit and is not matched by \d).                   *)
(*  - Names and command words are never inspected, so they are atoms.      *)
(*  - Record objects live in heap (a sequence, the index is the identity   *)
(*    of the object); the book's dict is an insertion-ordered sequence of  *)
(*    entries, as a Python dict is.                                        *)
(*  - The outcome of a call is Return(v) or Raise(exception, message).     *)
(*  - A command of the bot is the pair parse_input returns: the command     *)
(*    word in lower case and the list of the arguments.                     *)
(***************************************************************************)
EXTENDS Integers, Sequences, FiniteSets, TLC

VARIABLES
    heap,   \* the Record objects constructed so far
    book,   \* AddressBook.data
    today,  \* date.today()
    call,   \* the last call: its name, arguments, outcome and pre-state
    pc,     \* the bot's main loop: "running", "closed" or "crashed"
    lastAdded   \* history of AddRecord: per name, the object last added

vars == <<heap, book, today, call, pc, lastAdded>>

(***************************************************************************)
(* Outcomes and Python values                                              *)
(***************************************************************************)
\* Python's None, where a sequence of characters could stand instead.
None == <<"None">>

Return(v) == [kind |-> "return", val |-> v]

Raise(e, m) == [kind |-> "raise", exc |-> e, msg |-> m]

Returned(r) == r.kind = "return"

Raised(r, e) == r.kind = "raise" /\ r.exc = e

(***************************************************************************)
(* Characters and str methods                                              *)
(***************************************************************************)
AsciiDigits == {"0", "1", "2", "3", "4", "5", "6", "7", "8", "9"}

\* Characters outside 0-9 for which str.isdigit() is True.
UnicodeDigits == {"sup2"}

DigitValue(c) ==
    CASE c = "0" -> 0 [] c = "1" -> 1 [] c = "2" -> 2 [] c = "3" -> 3
      [] c = "4" -> 4 [] c = "5" -> 5 [] c = "6" -> 6 [] c = "7" -> 7
      [] c = "8" -> 8 [] c = "9" -> 9

DigitChar(n) ==
    CASE n = 0 -> "0" [] n = 1 -> "1" [] n = 2 -> "2" [] n = 3 -> "3"
      [] n = 4 -> "4" [] n = 5 -> "5" [] n = 6 -> "6" [] n = 7 -> "7"
      [] n = 8 -> "8" [] n = 9 -> "9"

\* str.isdigit(): every character is a digit and there is at least one.
isdigit(s) ==
    /\ Len(s) > 0
    /\ \A i \in 1..Len(s) : s[i] \in AsciiDigits \cup UnicodeDigits

(***************************************************************************)
(* datetime.date                                                           *)
(***************************************************************************)
IsLeap(y) == y % 4 = 0 /\ (y % 100 # 0 \/ y % 400 = 0)

DaysInMonth(y, m) ==
    IF m = 2 THEN (IF IsLeap(y) THEN 29 ELSE 28)
    ELSE IF m \in {4, 6, 9, 11} THEN 30 ELSE 31

DaysBeforeYear(y) ==
    (y - 1) * 365 + (y - 1) \div 4 - (y - 1) \div 100 + (y - 1) \div 400

RECURSIVE DaysBeforeMonth(_, _)
DaysBeforeMonth(y, m) ==
    IF m = 1 THEN 0 ELSE DaysBeforeMonth(y, m - 1) + DaysInMonth(y, m - 1)

\* date(year, month, day): the constructor's range checks (MINYEAR is 1 and
\* MAXYEAR is 9999).
date(y, m, d) ==
    IF y < 1 \/ y > 9999
    THEN Raise("ValueError", "year is out of range")
    ELSE IF m < 1 \/ m > 12
    THEN Raise("ValueError", "month must be in 1..12")
    ELSE IF d < 1 \/ d > DaysInMonth(y, m)
    THEN Raise("ValueError", "day is out of range for month")
    ELSE Return([year |-> y, month |-> m, day |-> d])

toordinal(dt) ==
    DaysBeforeYear(dt.year) + DaysBeforeMonth(dt.year, dt.month) + dt.day

\* date.weekday(): Monday is 0, Sunday is 6.
weekday(dt) == (toordinal(dt) + 6) % 7

\* date.replace(year=y): a new date, constructed and so range-checked.
replace_year(dt, y) == date(y, dt.month, dt.day)

\* date < date
date_lt(a, b) == toordinal(a) < toordinal(b)

\* (a - b).days
date_sub_days(a, b) == toordinal(a) - toordinal(b)

NextDay(dt) ==
    IF dt.day < DaysInMonth(dt.year, dt.month)
    THEN [dt EXCEPT !.day = dt.day + 1]
    ELSE IF dt.month < 12
    THEN [dt EXCEPT !.month = dt.month + 1, !.day = 1]
    ELSE [year |-> dt.year + 1, month |-> 1, day |-> 1]

\* date + timedelta(days=k), k >= 0: the date whose ordinal is k larger.
RECURSIVE date_add(_, _)
date_add(dt, k) == IF k = 0 THEN dt ELSE date_add(NextDay(dt), k - 1)

Pad2(n) == <<DigitChar(n \div 10), DigitChar(n % 10)>>

Pad4(n) ==
    <<DigitChar(n \div 1000), DigitChar((n \div 100) % 10),
      DigitChar((n \div 10) % 10), DigitChar(n % 10)>>

\* date.strftime("%d.%m.%Y") for a year of four digits.
date_to_string(dt) ==
    Pad2(dt.day) \o <<".">> \o Pad2(dt.month) \o <<".">> \o Pad4(dt.year)

(***************************************************************************)
(* datetime.strptime(value, "%d.%m.%Y"), by the regular expressions the    *)
(* library compiles the format to:                                         *)
(*   %d  3[0-1]|[1-2]\d|0[1-9]|[1-9]| [1-9]                                *)
(*   %m  1[0-2]|0[1-9]|[1-9]                                               *)
(*   %Y  \d\d\d\d                                                          *)
(* Each Match operator gives the set of positions at which a match that    *)
(* starts at position i may end (the position after its last character).   *)
(***************************************************************************)
At(s, i) == IF i \in 1..Len(s) THEN s[i] ELSE "EOS"

MatchDay(s, i) ==
    LET a == At(s, i)
        b == At(s, i + 1)
    IN  (IF \/ (a = "3" /\ b \in {"0", "1"})
            \/ (a \in {"1", "2"} /\ b \in AsciiDigits)
            \/ (a = "0" /\ b \in AsciiDigits \ {"0"})
            \/ (a = " " /\ b \in AsciiDigits \ {"0"})
         THEN {i + 2} ELSE {})
        \cup (IF a \in AsciiDigits \ {"0"} THEN {i + 1} ELSE {})

MatchMonth(s, i) ==
    LET a == At(s, i)
        b == At(s, i + 1)
    IN  (IF \/ (a = "1" /\ b \in {"0", "1", "2"})
            \/ (a = "0" /\ b \in AsciiDigits \ {"0"})
         THEN {i + 2} ELSE {})
        \cup (IF a \in AsciiDigits \ {"0"} THEN {i + 1} ELSE {})

MatchYear(s, i) ==
    IF \A k \in 0..3 : At(s, i + k) \in AsciiDigits THEN {i + 4} ELSE {}

MatchDot(s, i) == IF At(s, i) = "." THEN {i + 1} ELSE {}

\* int() of s[i..j-1], ASCII digits and the spaces int() strips.
RECURSIVE IntOf(_, _, _)
IntOf(s, i, j) ==
    IF j <= i THEN 0
    ELSE IF s[j - 1] = " " THEN IntOf(s, i, j - 1)
    ELSE IntOf(s, i, j - 1) * 10 + DigitValue(s[j - 1])

\* The matches of the whole pattern from position 1, each <<d, m, y>>: the
\* day is s[1..d-1], the month s[d+1..m-1] and the year s[m+1..y-1].
FormatMatches(s) ==
    UNION {UNION {{<<d, m, y>> :
                      y \in UNION {MatchYear(s, k) : k \in MatchDot(s, m)}} :
                  m \in UNION {MatchMonth(s, k) : k \in MatchDot(s, d)}} :
           d \in MatchDay(s, 1)}

strptime(s) ==
    LET found == FormatMatches(s)
    IN  IF found = {}
        THEN Raise("ValueError", "time data does not match format")
        ELSE LET f == CHOOSE x \in found : TRUE
             IN  IF Len(s) # f[3] - 1
                 THEN Raise("ValueError", "unconverted data remains")
                 ELSE date(IntOf(s, f[2] + 1, f[3]), IntOf(s, f[1] + 1, f[2]),
                           IntOf(s, 1, f[1]))

(***************************************************************************)
(* Field validators                                                        *)
(***************************************************************************)
\* Phone(value): the Phone object is represented by its value.
Phone(value) ==
    IF Len(value) = 10 /\ isdigit(value)
    THEN Return(value)
    ELSE Raise("ValueError", "Phone number must contain 10 digits.")

\* Birthday(value): the value is kept as entered, the parse is discarded.
Birthday(value) ==
    IF Returned(strptime(value))
    THEN Return(value)
    ELSE Raise("ValueError", "Invalid date format. Use DD.MM.YYYY")

(***************************************************************************)
(* Record.  A method gives [ret |-> its outcome, self |-> the record after *)
(* the call].                                                              *)
(***************************************************************************)
Record(name) == [name |-> name, phones |-> <<>>, birthday |-> None]

Record_add_phone(self, phone) ==
    LET p == Phone(phone)
    IN  IF Returned(p)
        THEN [ret |-> Return(None),
              self |-> [self EXCEPT !.phones = Append(@, p.val)]]
        ELSE [ret |-> p, self |-> self]

Record_add_birthday(self, value) ==
    LET b == Birthday(value)
    IN  IF Returned(b)
        THEN [ret |-> Return(None), self |-> [self EXCEPT !.birthday = b.val]]
        ELSE [ret |-> b, self |-> self]

\* find_phone: the position of the Phone object it returns, 0 for None.  The
\* loop returns at the first phone whose value equals the argument.
Record_find_phone(self, phone) ==
    LET hits == {i \in 1..Len(self.phones) : self.phones[i] = phone}
    IN  IF hits = {} THEN 0
        ELSE CHOOSE i \in hits : \A j \in hits : i <= j

\* list.remove(x) and list.index(x) for the object at position i: every
\* position of the list holds an object of its own (Phone defines no __eq__),
\* so the first element equal to the object is the object itself.
ListRemoveAt(l, i) ==
    [k \in 1..(Len(l) - 1) |-> IF k < i THEN l[k] ELSE l[k + 1]]

\* A remove_phone that drops every phone equal to the argument.
RECURSIVE ListWithout(_, _)
ListWithout(l, x) ==
    IF l = <<>> THEN <<>>
    ELSE (IF Head(l) = x THEN <<>> ELSE <<Head(l)>>) \o ListWithout(Tail(l), x)

Record_remove_phone_all(self, phone) ==
    IF Record_find_phone(self, phone) # 0
    THEN [ret |-> Return(None),
          self |-> [self EXCEPT !.phones = ListWithout(@, phone)]]
    ELSE [ret |-> Raise("ValueError", "Phone number not found"),
          self |-> self]

Record_remove_phone(self, phone) ==
    LET phone_instance == Record_find_phone(self, phone)
    IN  IF phone_instance # 0
        THEN [ret |-> Return(None),
              self |-> [self EXCEPT
                           !.phones = ListRemoveAt(@, phone_instance)]]
        ELSE [ret |-> Raise("ValueError", "Phone number not found"),
              self |-> self]

Record_edit_phone(self, old_phone, new_phone) ==
    LET phone_instance == Record_find_phone(self, old_phone)
        index == phone_instance
        p == Phone(new_phone)
    IN  IF phone_instance # 0
        THEN IF Returned(p)
             THEN [ret |-> Return(None),
                   self |-> [self EXCEPT !.phones[index] = p.val]]
             ELSE [ret |-> p, self |-> self]
        ELSE [ret |-> Raise("ValueError", "Old phone number not found"),
              self |-> self]

(***************************************************************************)
(* Inputs                                                                  *)
(***************************************************************************)
P1 == <<"0", "1", "2", "3", "4", "5", "6", "7", "8", "9">>

P2 == <<"5", "5", "5", "0", "0", "0", "1", "1", "1", "1">>

\* ten times U+00B2
PSup == <<"sup2", "sup2", "sup2", "sup2", "sup2",
          "sup2", "sup2", "sup2", "sup2", "sup2">>

PShort == <<"1", "2", "3">>

PAlpha == <<"1", "2", "3", "4", "5", "a", "b", "c", "d", "e">>

PhoneInputs == {P1, P2, PSup, PShort, PAlpha}

B_15_06_2024 == <<"1", "5", ".", "0", "6", ".", "2", "0", "2", "4">>

B_29_02_2024 == <<"2", "9", ".", "0", "2", ".", "2", "0", "2", "4">>

B_29_02_2023 == <<"2", "9", ".", "0", "2", ".", "2", "0", "2", "3">>

B_31_02_2024 == <<"3", "1", ".", "0", "2", ".", "2", "0", "2", "4">>

B_1_1_2024 == <<"1", ".", "1", ".", "2", "0", "2", "4">>

B_2024_01_01 == <<"2", "0", "2", "4", ".", "0", "1", ".", "0", "1">>

B_15d06d2024 == <<"1", "5", "-", "0", "6", "-", "2", "0", "2", "4">>

B_15_06_24 == <<"1", "5", ".", "0", "6", ".", "2", "4">>

B_15_06_20245 == <<"1", "5", ".", "0", "6", ".", "2", "0", "2", "4", "5">>

B_00_01_2024 == <<"0", "0", ".", "0", "1", ".", "2", "0", "2", "4">>

B_01_13_2024 == <<"0", "1", ".", "1", "3", ".", "2", "0", "2", "4">>

B_01_01_0000 == <<"0", "1", ".", "0", "1", ".", "0", "0", "0", "0">>

B_sp5_06_2024 == <<" ", "5", ".", "0", "6", ".", "2", "0", "2", "4">>

B_empty == <<>>

BirthdayInputs ==
    {B_15_06_2024, B_29_02_2024, B_29_02_2023, B_31_02_2024, B_1_1_2024,
     B_2024_01_01, B_15d06d2024, B_15_06_24, B_15_06_20245, B_00_01_2024,
     B_01_13_2024, B_01_01_0000, B_sp5_06_2024, B_empty}

Names == {"Ann", "Bob"}

\* The longest phone list a record is grown to.
MaxPhones == 3

(***************************************************************************)
(* The calls on one Record                                                 *)
(***************************************************************************)
Call(op, self, args, ret) ==
    [op |-> op, self |-> self, args |-> args, ret |-> ret,
     heap0 |-> heap, book0 |-> book]

NoCall == [op |-> "none", self |-> 0, args |-> <<>>, ret |-> Return(None),
           heap0 |-> <<>>, book0 |-> <<>>]

Day0 == [year |-> 2024, month |-> 6, day |-> 10]

AddPhone(r, phone) ==
    /\ Len(heap[r].phones) < MaxPhones
    /\ LET res == Record_add_phone(heap[r], phone)
       IN  /\ heap' = [heap EXCEPT ![r] = res.self]
           /\ call' = Call("add_phone", r, <<phone>>, res.ret)
    /\ UNCHANGED <<book, today, pc, lastAdded>>

RemovePhone(r, phone) ==
    /\ LET res == Record_remove_phone(heap[r], phone)
       IN  /\ heap' = [heap EXCEPT ![r] = res.self]
           /\ call' = Call("remove_phone", r, <<phone>>, res.ret)
    /\ UNCHANGED <<book, today, pc, lastAdded>>

EditPhone(r, old_phone, new_phone) ==
    /\ LET res == Record_edit_phone(heap[r], old_phone, new_phone)
       IN  /\ heap' = [heap EXCEPT ![r] = res.self]
           /\ call' = Call("edit_phone", r, <<old_phone, new_phone>>, res.ret)
    /\ UNCHANGED <<book, today, pc, lastAdded>>

FindPhone(r, phone) ==
    /\ call' = Call("find_phone", r, <<phone>>,
                    Return(Record_find_phone(heap[r], phone)))
    /\ UNCHANGED <<heap, book, today, pc, lastAdded>>

AddBirthday(r, value) ==
    /\ LET res == Record_add_birthday(heap[r], value)
       IN  /\ heap' = [heap EXCEPT ![r] = res.self]
           /\ call' = Call("add_birthday", r, <<value>>, res.ret)
    /\ UNCHANGED <<book, today, pc, lastAdded>>

InitRecord ==
    /\ heap = <<Record("Ann")>>
    /\ book = <<>>
    /\ today = Day0
    /\ call = NoCall
    /\ pc = "running"
    /\ lastAdded = [n \in Names |-> 0]

NextRecord ==
    \/ \E r \in DOMAIN heap : \E phone \in PhoneInputs : AddPhone(r, phone)
    \/ \E r \in DOMAIN heap : \E phone \in PhoneInputs : RemovePhone(r, phone)
    \/ \E r \in DOMAIN heap : \E old_phone, new_phone \in PhoneInputs :
           EditPhone(r, old_phone, new_phone)
    \/ \E r \in DOMAIN heap : \E phone \in PhoneInputs : FindPhone(r, phone)
    \/ \E r \in DOMAIN heap : \E value \in BirthdayInputs : AddBirthday(r, value)

SpecRecord == InitRecord /\ [][NextRecord]_vars

(***************************************************************************)
(* What the specification says of the inputs, stated without the code      *)
(***************************************************************************)
Range(l) == {l[i] : i \in 1..Len(l)}

\* A phone as the specification defines it: exactly 10 characters, each one
\* of the decimal digits 0-9.
TenDecimalDigits(s) ==
    Len(s) = 10 /\ \A i \in 1..10 : s[i] \in AsciiDigits

\* A birthday as the specification defines it: DD.MM.YYYY, zero-padded, with
\* dot separators, denoting a real calendar date.
ZeroPaddedRealDate(s) ==
    /\ Len(s) = 10
    /\ s[3] = "." /\ s[6] = "."
    /\ \A i \in {1, 2, 4, 5, 7, 8, 9, 10} : s[i] \in AsciiDigits
    /\ LET d == 10 * DigitValue(s[1]) + DigitValue(s[2])
           m == 10 * DigitValue(s[4]) + DigitValue(s[5])
           y == 1000 * DigitValue(s[7]) + 100 * DigitValue(s[8])
                + 10 * DigitValue(s[9]) + DigitValue(s[10])
       IN  /\ y >= 1
           /\ m \in 1..12
           /\ d >= 1
           /\ d <= (IF m = 2
                    THEN (IF y % 4 = 0 /\ (y % 100 # 0 \/ y % 400 = 0)
                          THEN 29 ELSE 28)
                    ELSE IF m \in {4, 6, 9, 11} THEN 30 ELSE 31)

\* The record a call was made on, before and after it.
Before == call.heap0[call.self]

After == heap[call.self]

(***************************************************************************)
(* Claims on one Record, under SpecRecord                                  *)
(***************************************************************************)
\* C4: edit_phone(old, new) never partially mutates a Record: when the
\* record contains old and new is a valid phone (10 decimal digits), the
\* first phone equal to old is replaced by new at the same position and every
\* other position is unchanged; when old is absent or new is invalid, the
\* call fails and the record is exactly as before.
C4_EditPhoneAllOrNothing ==
    call.op = "edit_phone" =>
        LET old == call.args[1]
            new == call.args[2]
        IN  IF old \in Range(Before.phones) /\ TenDecimalDigits(new)
            THEN /\ Returned(call.ret)
                 /\ Len(After.phones) = Len(Before.phones)
                 /\ \E i \in 1..Len(Before.phones) :
                        /\ Before.phones[i] = old
                        /\ \A j \in 1..(i - 1) : Before.phones[j] # old
                        /\ After.phones[i] = new
                        /\ \A j \in 1..Len(Before.phones) :
                               j # i => After.phones[j] = Before.phones[j]
                 /\ After.name = Before.name
                 /\ After.birthday = Before.birthday
            ELSE /\ Raised(call.ret, "ValueError")
                 /\ After = Before

\* C4, as far as edit_phone itself decides it: with "valid" read as
\* "accepted by Phone", the call is all or nothing.
EditPhoneAllOrNothingGivenPhone ==
    call.op = "edit_phone" =>
        LET old == call.args[1]
            new == call.args[2]
        IN  IF old \in Range(Before.phones) /\ Returned(Phone(new))
            THEN /\ Returned(call.ret)
                 /\ \E i \in 1..Len(Before.phones) :
                        /\ Before.phones[i] = old
                        /\ \A j \in 1..(i - 1) : Before.phones[j] # old
                        /\ After = [Before EXCEPT !.phones[i] = new]
            ELSE /\ Raised(call.ret, "ValueError")
                 /\ After = Before

\* C5: every phone stored in a record's phone list is a string of exactly 10
\* characters, all decimal digits 0-9, and add_phone of any other string
\* fails and stores nothing.
C5_StoredPhonesAreTenDecimalDigits ==
    /\ \A r \in DOMAIN heap : \A i \in 1..Len(heap[r].phones) :
           TenDecimalDigits(heap[r].phones[i])
    /\ (call.op = "add_phone" /\ ~TenDecimalDigits(call.args[1])) =>
           (Raised(call.ret, "ValueError") /\ After = Before)

\* C6: Birthday construction succeeds exactly for zero-padded DD.MM.YYYY
\* strings that denote a real calendar date and fails with the validation
\* error for every other string; a failed add_birthday leaves the record's
\* previous birthday unchanged.
C6_BirthdayExactlyZeroPaddedDates ==
    call.op = "add_birthday" =>
        IF ZeroPaddedRealDate(call.args[1])
        THEN Returned(call.ret) /\ After.birthday = call.args[1]
        ELSE /\ Raised(call.ret, "ValueError")
             /\ call.ret.msg = "Invalid date format. Use DD.MM.YYYY"
             /\ After.birthday = Before.birthday

\* C8: remove_phone(raw) on a record that contains raw removes exactly the
\* first phone equal to raw and keeps all the others, later duplicates
\* included, in their order; on a record without raw it fails with "Phone
\* number not found" and leaves the phone list unchanged.
C8_RemovePhoneRemovesFirstMatch ==
    call.op = "remove_phone" =>
        LET raw == call.args[1]
            n == Len(Before.phones)
        IN  IF raw \in Range(Before.phones)
            THEN /\ Returned(call.ret)
                 /\ \E i \in 1..n :
                        /\ Before.phones[i] = raw
                        /\ \A j \in 1..(i - 1) : Before.phones[j] # raw
                        /\ After.phones = SubSeq(Before.phones, 1, i - 1)
                                          \o SubSeq(Before.phones, i + 1, n)
                 /\ After.name = Before.name
                 /\ After.birthday = Before.birthday
            ELSE /\ Raised(call.ret, "ValueError")
                 /\ call.ret.msg = "Phone number not found"
                 /\ After = Before

\* C8's case: a successful remove_phone of a phone that the record held
\* twice, the first of them not at the head of the list.
C8_Witness ==
    /\ call.op = "remove_phone"
    /\ Returned(call.ret)
    /\ Before.phones[1] # call.args[1]
    /\ Cardinality({i \in 1..Len(Before.phones) :
                       Before.phones[i] = call.args[1]}) >= 2
    /\ call.args[1] \in Range(After.phones)

(***************************************************************************)
(* AddressBook(UserDict).  A value of the dict is a reference to a Record  *)
(* object, RecordRef(i), or a str, StrVal(s); PyNone is None where such a  *)
(* value could stand.                                                      *)
(***************************************************************************)
RecordRef(i) == [t |-> "Record", ref |-> i]

StrVal(s) == [t |-> "str", s |-> s]

PyNone == [t |-> "None"]

Keys(d) == {d[i].key : i \in 1..Len(d)}

\* dict.get(key): the value of the entry with that key, or None.
dict_get(d, key) ==
    IF key \in Keys(d)
    THEN d[CHOOSE i \in 1..Len(d) :
               d[i].key = key /\ \A j \in 1..(i - 1) : d[j].key # key].val
    ELSE PyNone

\* A __setitem__ that never looks for the key.
dict_append(d, key, val) == Append(d, [key |-> key, val |-> val])

\* dict.__setitem__(key, val): the entry with that key gets the value and
\* keeps its place; a new key is entered last.
dict_setitem(d, key, val) ==
    IF key \in Keys(d)
    THEN [i \in 1..Len(d) |->
             IF d[i].key = key THEN [key |-> key, val |-> val] ELSE d[i]]
    ELSE Append(d, [key |-> key, val |-> val])

\* add_record(record), for the Record object r of the heap h.
AddressBook_add_record(data, h, r) == dict_setitem(data, h[r].name, RecordRef(r))

AddressBook_find(data, name) == dict_get(data, name)

\* The most Record objects constructed.
MaxObjects == 2

\* The longest phone list of a Record that is put into a book.
MaxBookPhones == 1

NewRecord(name) ==
    /\ Len(heap) < MaxObjects
    /\ heap' = Append(heap, Record(name))
    /\ call' = Call("Record", Len(heap) + 1, <<name>>, Return(None))
    /\ UNCHANGED <<book, today, pc, lastAdded>>

BookAddPhone(r) ==
    /\ Len(heap[r].phones) < MaxBookPhones
    /\ AddPhone(r, P1)

AddRecord(r) ==
    /\ book' = AddressBook_add_record(book, heap, r)
    /\ lastAdded' = [lastAdded EXCEPT ![heap[r].name] = r]
    /\ call' = Call("add_record", 0, <<r>>, Return(None))
    /\ UNCHANGED <<heap, today, pc>>

Find(name) ==
    /\ call' = Call("find", 0, <<name>>, Return(AddressBook_find(book, name)))
    /\ UNCHANGED <<heap, book, today, pc, lastAdded>>

InitBook ==
    /\ heap = <<>>
    /\ book = <<>>
    /\ today = Day0
    /\ call = NoCall
    /\ pc = "running"
    /\ lastAdded = [n \in Names |-> 0]

NextBook ==
    \/ \E name \in Names : NewRecord(name)
    \/ \E r \in DOMAIN heap : BookAddPhone(r)
    \/ \E r \in DOMAIN heap : AddBirthday(r, B_15_06_2024)
    \/ \E r \in DOMAIN heap : AddRecord(r)
    \/ \E name \in Names : Find(name)

SpecBook == InitBook /\ [][NextBook]_vars

(***************************************************************************)
(* Claims on the AddressBook, under SpecBook                               *)
(***************************************************************************)
\* C3: after any sequence of add_record calls the book holds at most one
\* Record per name, and find(name) returns the Record most recently added
\* under that name, with the phones and birthday of that object and nothing
\* merged in from the one it replaced, or none if no Record of that name was
\* ever added; find itself changes nothing.
C3_LastAddWinsAndFindReadsIt ==
    /\ \A i, j \in 1..Len(book) : book[i].key = book[j].key => i = j
    /\ \A name \in Names :
           AddressBook_find(book, name) =
               (IF lastAdded[name] = 0 THEN PyNone
                ELSE RecordRef(lastAdded[name]))
    /\ call.op = "add_record" =>
           /\ heap = call.heap0
           /\ AddressBook_find(book, heap[call.args[1]].name)
                  = RecordRef(call.args[1])
    /\ call.op = "find" =>
           /\ heap = call.heap0 /\ book = call.book0
           /\ call.ret = Return(IF lastAdded[call.args[1]] = 0 THEN PyNone
                                ELSE RecordRef(lastAdded[call.args[1]]))

\* C3's case: add_record of a second object under a name that the book held
\* with another object of other phones; the entry is replaced, not added.
C3_Witness ==
    /\ call.op = "add_record"
    /\ Len(book) = Len(call.book0)
    /\ LET new == call.args[1]
           old == AddressBook_find(call.book0, heap[new].name)
       IN  /\ old # PyNone
           /\ old.ref # new
           /\ heap[old.ref].phones # heap[new].phones
           /\ AddressBook_find(book, heap[new].name) = RecordRef(new)

(***************************************************************************)
(* The upcoming-birthday scheduler                                         *)
(***************************************************************************)
find_next_weekday(start_date, wd) ==
    LET days_ahead == wd - weekday(start_date)
    IN  date_add(start_date,
                 IF days_ahead <= 0 THEN days_ahead + 7 ELSE days_ahead)

\* An adjust_for_weekend that tests weekday() > 5.
adjust_for_weekend_sunday_only(birthday) ==
    IF weekday(birthday) > 5 THEN find_next_weekday(birthday, 0) ELSE birthday

adjust_for_weekend(birthday) ==
    IF weekday(birthday) >= 5 THEN find_next_weekday(birthday, 0) ELSE birthday

\* The loop of get_upcoming_birthdays from the i-th value of the dict on,
\* with the list built so far.  An exception ends the call.
RECURSIVE UpcomingFrom(_, _, _, _, _, _)
UpcomingFrom(data, h, tdy, days, i, upcoming_birthdays) ==
    IF i > Len(data) THEN Return(upcoming_birthdays)
    ELSE IF data[i].val.t # "Record"
    THEN Raise("AttributeError", "'str' object has no attribute 'birthday'")
    ELSE LET record == h[data[i].val.ref]
         IN  IF record.birthday = None
             THEN UpcomingFrom(data, h, tdy, days, i + 1, upcoming_birthdays)
             ELSE LET parsed == strptime(record.birthday)
                      this_year == IF Returned(parsed)
                                   THEN replace_year(parsed.val, tdy.year)
                                   ELSE parsed
                      birthday_this_year ==
                          IF Returned(this_year) /\ date_lt(this_year.val, tdy)
                          THEN replace_year(this_year.val, tdy.year + 1)
                          ELSE this_year
                  IN  IF ~Returned(birthday_this_year)
                      THEN birthday_this_year
                      ELSE LET d == date_sub_days(birthday_this_year.val, tdy)
                           IN  IF 0 <= d /\ d <= days
                               THEN UpcomingFrom(data, h, tdy, days, i + 1,
                                        Append(upcoming_birthdays,
                                            [name |-> record.name,
                                             birthday |-> date_to_string(
                                                 adjust_for_weekend(
                                                     birthday_this_year.val))]))
                               ELSE UpcomingFrom(data, h, tdy, days, i + 1,
                                                 upcoming_birthdays)

get_upcoming_birthdays(data, h, tdy, days) ==
    UpcomingFrom(data, h, tdy, days, 1, <<>>)

\* The widest window asked for (the default of the code is 7).
MaxWindow == 8

B_01_01_1990 == <<"0", "1", ".", "0", "1", ".", "1", "9", "9", "0">>

\* The first and the last "today": a non-leap year and the leap year after it.
FirstDay == [year |-> 2023, month |-> 1, day |-> 1]

LastDay == [year |-> 2024, month |-> 12, day |-> 31]

Todays ==
    {dt \in [year : FirstDay.year..LastDay.year, month : 1..12, day : 1..31] :
        dt.day <= DaysInMonth(dt.year, dt.month)}

\* A book of the records Record(name) with add_birthday(value) (no call for
\* None), each entered with add_record.
RECURSIVE HeapOf(_)
HeapOf(people) ==
    IF people = <<>> THEN <<>>
    ELSE LET p == people[Len(people)]
         IN  Append(HeapOf(SubSeq(people, 1, Len(people) - 1)),
                    IF p[2] = None THEN Record(p[1])
                    ELSE Record_add_birthday(Record(p[1]), p[2]).self)

RECURSIVE BookOf(_, _)
BookOf(h, n) ==
    IF n = 0 THEN <<>> ELSE AddressBook_add_record(BookOf(h, n - 1), h, n)

People ==
    {<<<<"Ann", b>>>> :
        b \in {None, B_15_06_2024, B_29_02_2024, B_01_01_1990, B_1_1_2024}}
    \cup {<<<<"Ann", a>>, <<"Bob", b>>>> :
             a \in {B_29_02_2024, B_15_06_2024}, b \in {None, B_15_06_2024, B_01_01_1990}}

GetUpcomingBirthdays(days) ==
    /\ call.op = "none"
    /\ call' = Call("get_upcoming_birthdays", 0, <<days>>,
                    get_upcoming_birthdays(book, heap, today, days))
    /\ UNCHANGED <<heap, book, today, pc, lastAdded>>

InitBirthdays ==
    /\ \E people \in People :
           /\ heap = HeapOf(people)
           /\ book = BookOf(heap, Len(heap))
    /\ today \in Todays
    /\ call = NoCall
    /\ pc = "running"
    /\ lastAdded = [n \in Names |-> 0]

NextBirthdays == \E days \in 0..MaxWindow : GetUpcomingBirthdays(days)

SpecBirthdays == InitBirthdays /\ [][NextBirthdays]_vars

(***************************************************************************)
(* Claims on the scheduler, under SpecBirthdays                            *)
(***************************************************************************)
\* The date an emitted DD.MM.YYYY string denotes, read off its positions.
DateOf(s) ==
    [year |-> 1000 * DigitValue(s[7]) + 100 * DigitValue(s[8])
              + 10 * DigitValue(s[9]) + DigitValue(s[10]),
     month |-> 10 * DigitValue(s[4]) + DigitValue(s[5]),
     day |-> 10 * DigitValue(s[1]) + DigitValue(s[2])]

\* The month and day of a stored birthday.
MonthOf(b) == strptime(b).val.month

DayOf(b) == strptime(b).val.day

\* The days n in 0..w after which the day and month of birthday b come round,
\* counted from today: the next occurrence is the least of them.
OccurrencesWithin(b, w) ==
    {n \in 0..w : LET dt == date_add(today, n)
                  IN  dt.month = MonthOf(b) /\ dt.day = DayOf(b)}

Least(S) == CHOOSE n \in S : \A m \in S : n <= m

RecordsOfBook == {heap[book[i].val.ref] : i \in 1..Len(book)}

\* The entries a call of get_upcoming_birthdays gave its caller: none when
\* it raised.
EntriesGiven == IF Returned(call.ret) THEN call.ret.val ELSE <<>>

\* C1: get_upcoming_birthdays(windowDays) contains an entry for a record if
\* and only if the record has a birthday and the number of days from today to
\* the next occurrence of its day and month is between 0 and windowDays
\* inclusive, for every address book, every today and every windowDays >= 0.
C1_IncludedIffWithinWindow ==
    call.op = "get_upcoming_birthdays" =>
        \A record \in RecordsOfBook :
            (\E k \in 1..Len(EntriesGiven) : EntriesGiven[k].name = record.name)
            <=> /\ record.birthday # None
                /\ OccurrencesWithin(record.birthday, call.args[1]) # {}

\* C1 wherever the call returns a list.
IncludedIffWithinWindowWhenReturned ==
    (call.op = "get_upcoming_birthdays" /\ Returned(call.ret)) =>
        \A record \in RecordsOfBook :
            (\E k \in 1..Len(call.ret.val) :
                 call.ret.val[k].name = record.name)
            <=> /\ record.birthday # None
                /\ OccurrencesWithin(record.birthday, call.args[1]) # {}

\* C2: every date emitted by get_upcoming_birthdays is a Monday-to-Friday
\* date: the record's next birthday occurrence unchanged if that falls on
\* Monday..Friday, the occurrence plus 2 days if it falls on a Saturday and
\* plus 1 day if on a Sunday.
C2_EmittedDateIsWeekdayAdjusted ==
    (call.op = "get_upcoming_birthdays" /\ Returned(call.ret)) =>
        \A k \in 1..Len(call.ret.val) :
            LET entry == call.ret.val[k]
                record == CHOOSE r \in RecordsOfBook : r.name = entry.name
                within == OccurrencesWithin(record.birthday, call.args[1])
                occurrence == date_add(today, Least(within))
                shift == CASE weekday(occurrence) = 5 -> 2
                           [] weekday(occurrence) = 6 -> 1
                           [] OTHER -> 0
            IN  /\ record.birthday # None
                /\ within # {}
                /\ Len(entry.birthday) = 10
                /\ entry.birthday[3] = "." /\ entry.birthday[6] = "."
                /\ DateOf(entry.birthday) = date_add(occurrence, shift)
                /\ weekday(DateOf(entry.birthday)) \in 0..4

\* C2's case: a birthday that falls on a Saturday, on the last day of the
\* window, is emitted as the Monday two days later.
C2_Witness ==
    /\ call.op = "get_upcoming_birthdays"
    /\ Returned(call.ret)
    /\ \E k \in 1..Len(call.ret.val) :
           LET entry == call.ret.val[k]
               record == CHOOSE r \in RecordsOfBook : r.name = entry.name
               occurrence == date_add(today, call.args[1])
           IN  /\ occurrence.month = MonthOf(record.birthday)
               /\ occurrence.day = DayOf(record.birthday)
               /\ weekday(occurrence) = 5
               /\ DateOf(entry.birthday) = date_add(occurrence, 2)
               /\ call.args[1] = 7

\* C7: get_upcoming_birthdays has no failing outcome: for every book whose
\* records hold validly constructed birthdays (29 February included) or none,
\* and for every today, it returns a list, without the records that have no
\* birthday.
C7_AlwaysReturnsAList ==
    call.op = "get_upcoming_birthdays" =>
        /\ Returned(call.ret)
        /\ \A record \in RecordsOfBook :
               record.birthday = None =>
                   \A k \in 1..Len(call.ret.val) :
                       call.ret.val[k].name # record.name

(***************************************************************************)
(* The bot.  A handler gives [ret |-> outcome, heap |-> ..., book |-> ...]: *)
(* the objects and the book as the call leaves them, also when it raises.  *)
(***************************************************************************)
Outcome(ret, h, data) == [ret |-> ret, heap |-> h, book |-> data]

\* The decorator: ValueError, KeyError and IndexError become the message
\* returned; any other exception leaves the handler.
input_error(o) ==
    IF Raised(o.ret, "ValueError") THEN [o EXCEPT !.ret = Return(o.ret.msg)]
    ELSE IF Raised(o.ret, "KeyError")
    THEN [o EXCEPT !.ret = Return("Contact not found")]
    ELSE IF Raised(o.ret, "IndexError")
    THEN [o EXCEPT !.ret = Return("Insufficient arguments provided")]
    ELSE o

\* A method called on a str where a Record was expected.
NoAttribute == Raise("AttributeError", "'str' object has no attribute")

add_contact(args, h, data) ==
    input_error(
        IF Len(args) < 2
        THEN Outcome(Raise("ValueError", "not enough values to unpack"), h, data)
        ELSE LET name == args[1]
                 phone == args[2]
                 found == AddressBook_find(data, name)
                 \* if record is None: record = Record(name); add_record
                 h1 == IF found = PyNone THEN Append(h, Record(name)) ELSE h
                 r == IF found = PyNone THEN Len(h) + 1 ELSE found.ref
                 data1 == IF found = PyNone
                          THEN AddressBook_add_record(data, h1, r) ELSE data
                 message == IF found = PyNone THEN "Contact added."
                            ELSE "Contact updated."
             IN  IF found.t = "str" THEN Outcome(NoAttribute, h, data)
                 ELSE LET added == Record_add_phone(h1[r], phone)
                      IN  Outcome(IF Returned(added.ret) THEN Return(message)
                                  ELSE added.ret,
                                  [h1 EXCEPT ![r] = added.self], data1))

\* contacts[name] = phone, on the book
change_phone(args, h, data) ==
    input_error(
        IF Len(args) # 2
        THEN Outcome(Raise("ValueError", "wrong number of values to unpack"),
                     h, data)
        ELSE Outcome(Return("Phone number was updated"), h,
                     dict_setitem(data, args[1], StrVal(args[2]))))

\* contacts[name]: UserDict.__getitem__ raises KeyError for a missing key.
give_phone(args, h, data) ==
    input_error(
        IF Len(args) < 1 THEN Outcome(Raise("IndexError", "list index"), h, data)
        ELSE IF args[1] \notin Keys(data)
        THEN Outcome(Raise("KeyError", args[1]), h, data)
        ELSE Outcome(Return(dict_get(data, args[1])), h, data))

add_birthday(args, h, data) ==
    input_error(
        IF Len(args) # 2
        THEN Outcome(Raise("ValueError", "wrong number of values to unpack"),
                     h, data)
        ELSE LET found == AddressBook_find(data, args[1])
             IN  IF found = PyNone
                 THEN Outcome(Return("Contact not found."), h, data)
                 ELSE IF found.t = "str" THEN Outcome(NoAttribute, h, data)
                 ELSE LET set == Record_add_birthday(h[found.ref], args[2])
                      IN  Outcome(IF Returned(set.ret)
                                  THEN Return("Birthday added.") ELSE set.ret,
                                  [h EXCEPT ![found.ref] = set.self], data))

\* "record and record.birthday": None is false, a Record and a non-empty str
\* are true.  The message is represented by the birthday it quotes.
show_birthday(args, h, data) ==
    input_error(
        IF Len(args) < 1 THEN Outcome(Raise("IndexError", "list index"), h, data)
        ELSE LET found == AddressBook_find(data, args[1])
             IN  IF found = PyNone
                 THEN Outcome(Return("Birthday not found for this contact."),
                              h, data)
                 ELSE IF found.t = "str" THEN Outcome(NoAttribute, h, data)
                 ELSE IF h[found.ref].birthday # None
                 THEN Outcome(Return(h[found.ref].birthday), h, data)
                 ELSE Outcome(Return("Birthday not found for this contact."),
                              h, data))

\* The default of get_upcoming_birthdays(days=7).
DefaultDays == 7

\* The lines "name: birthday" are represented by the list of the entries.
birthdays(h, data, tdy) ==
    input_error(
        LET upcoming_birthdays == get_upcoming_birthdays(data, h, tdy, DefaultDays)
        IN  IF Returned(upcoming_birthdays) /\ upcoming_birthdays.val = <<>>
            THEN Outcome(Return("No upcoming birthdays."), h, data)
            ELSE Outcome(upcoming_birthdays, h, data))

\* One turn of the loop of main for the command and arguments that
\* parse_input gives.  An exception that leaves the handler ends the process
\* without save_data; "close" and "exit" end the loop, and save_data writes
\* the book as it is.
Dispatch(command, args, h, data, tdy) ==
    CASE command \in {"close", "exit"} -> Outcome(Return("Good bye!"), h, data)
      [] command = "hello" -> Outcome(Return("How can I help you?"), h, data)
      [] command = "add" -> add_contact(args, h, data)
      [] command = "change" -> change_phone(args, h, data)
      [] command = "phone" -> give_phone(args, h, data)
      [] command = "all" -> Outcome(Return(data), h, data)
      [] command = "add-birthday" -> add_birthday(args, h, data)
      [] command = "show-birthday" -> show_birthday(args, h, data)
      [] command = "birthdays" -> birthdays(h, data, tdy)
      [] command = "help" -> Outcome(Return("Available commands:"), h, data)
      [] OTHER -> Outcome(Return("Invalid command."), h, data)

Command(command, args) ==
    /\ pc = "running"
    /\ \E o \in {Dispatch(command, args, heap, book, today)} :
           /\ \A r \in DOMAIN o.heap : Len(o.heap[r].phones) <= MaxBookPhones
           /\ heap' = o.heap
           /\ book' = o.book
           /\ call' = Call(command, 0, args, o.ret)
           /\ pc' = IF ~Returned(o.ret) THEN "crashed"
                    ELSE IF command \in {"close", "exit"} THEN "closed"
                    ELSE "running"
    /\ UNCHANGED <<today, lastAdded>>

SessionPhones == {P1, PShort}

SessionBirthdays == {B_15_06_2024, B_29_02_2024, B_31_02_2024}

NameArgs == {<<>>} \cup {<<n>> : n \in Names}

InitSession ==
    /\ heap = <<>>
    /\ book = <<>>
    /\ today = Day0
    /\ call = NoCall
    /\ pc = "running"
    /\ lastAdded = [n \in Names |-> 0]

NextSession ==
    \/ \E args \in NameArgs \cup {<<n, p>> : n \in Names, p \in SessionPhones}
                   \cup {<<n, p, p>> : n \in Names, p \in SessionPhones} :
           Command("add", args)
    \/ \E args \in NameArgs \cup {<<n, p>> : n \in Names, p \in SessionPhones} :
           Command("change", args)
    \/ \E args \in NameArgs : Command("phone", args)
    \/ \E args \in NameArgs
                   \cup {<<n, b>> : n \in Names, b \in SessionBirthdays} :
           Command("add-birthday", args)
    \/ \E args \in NameArgs : Command("show-birthday", args)
    \/ \E command \in {"birthdays", "all", "hello", "help", "frobnicate",
                       "close", "exit"} : Command(command, <<>>)

SpecSession == InitSession /\ [][NextSession]_vars

(***************************************************************************)
(* Claims on the bot, under SpecSession                                    *)
(***************************************************************************)
\* C9: in every state reachable by any sequence of session commands, every
\* key of the book maps to a Record object whose name equals that key.
C9_BookMapsNamesToRecords ==
    \A i \in 1..Len(book) :
        /\ book[i].val.t = "Record"
        /\ book[i].val.ref \in DOMAIN heap
        /\ heap[book[i].val.ref].name = book[i].key

\* C10: an "add" command that fails (its reply is the phone validation error
\* or the message for missing arguments) leaves the address book unchanged:
\* the same names, and every record's phones and birthday as before; no
\* record is created for a name that was not in the book.
C10_FailedAddChangesNothing ==
    (/\ call.op = "add"
     /\ Returned(call.ret)
     /\ call.ret.val \notin {"Contact added.", "Contact updated."}) =>
        /\ Keys(book) = Keys(call.book0)
        /\ book = call.book0
        /\ heap = call.heap0

(***************************************************************************)
(* Known values of the date library, among them the scenario of the        *)
(* specification: 10.06.2024 is a Monday and 15.06.2024 a Saturday.        *)
(***************************************************************************)
DateLibraryFacts ==
    /\ strptime(B_15_06_2024) = Return([year |-> 2024, month |-> 6, day |-> 15])
    /\ strptime(B_1_1_2024) = Return([year |-> 2024, month |-> 1, day |-> 1])
    /\ strptime(B_sp5_06_2024) = Return([year |-> 2024, month |-> 6, day |-> 5])
    /\ strptime(B_29_02_2024) = Return([year |-> 2024, month |-> 2, day |-> 29])
    /\ \A s \in BirthdayInputs \ {B_15_06_2024, B_1_1_2024, B_sp5_06_2024,
                                  B_29_02_2024} : ~Returned(strptime(s))
    /\ weekday(Day0) = 0
    /\ weekday([year |-> 2024, month |-> 6, day |-> 15]) = 5
    /\ toordinal([year |-> 2024, month |-> 6, day |-> 15]) = 739052
    /\ date_to_string(date_add([year |-> 2024, month |-> 12, day |-> 29], 3))
           = <<"0", "1", ".", "0", "1", ".", "2", "0", "2", "5">>
====
